---- MODULE Spec2Model ----
(***************************************************************************)
(* AVE geofencing attendance service: the geofence / attendance engine     *)
(* (app/services/GeofenceService.py) and the password-reset / session      *)
(* core (app/services/UserService.py), modelled as request handlers that   *)
(* run concurrently against one database.  Every `await` on the database   *)
(* is a point where another request may run, so a handler with several     *)
(* awaits is a sequence of steps of one process.                           *)
(*                                                                         *)
(* Strings that the code concatenates or lower-cases (join codes, matric   *)
(* numbers) are sequences of one-character strings.  Time is counted in    *)
(* ticks.                                                                  *)
(***************************************************************************)
EXTENDS Integers, Sequences, FiniteSets, Bags, TLC

VARIABLES
    users,          \* table users: sequence of rows
    geofences,      \* table geofences: sequence of rows
    attendances,    \* table attendance records: bag of rows
    sessions,       \* table sessions: sequence of rows
    reset_tokens,   \* table passwordresettokens: set of rows
    now,            \* the clock, in ticks
    pc,             \* pc[p]: where request handler p is suspended; "idle" between requests
    loc,            \* loc[p]: the local variables of the handler p is running
    res             \* the response a service call most recently returned

vars == <<users, geofences, attendances, sessions, reset_tokens, now, pc, loc, res>>

geoVars  == <<geofences, attendances>>
authVars == <<sessions, reset_tokens>>

----------------------------------------------------------------------------
(* Bounds of the model *)

MaxTime == 2          \* the clock stops at MaxTime
DayLen == 2           \* ticks per calendar day
MaxCoord == 1         \* submitted latitudes are 0..MaxCoord

MaxSessions == 2      \* rows of the session table

(* Program constants *)

CodeLen == 6          \* range(6) in create_geofence
TTL == 1              \* expires_delta, timedelta(minutes=20): one tick of the clock

Procs == {"p1", "p2"}

Admin1 == <<"a", "1">>
Admin2 == <<"a", "2">>
Student1 == <<"s", "1">>
Student2 == <<"s", "2">>
Ghost == <<"x", "9">>           \* a matric no user has

UserRow(m, e, r, n) ==
    [user_matric |-> m, email |-> e, role |-> r, username |-> n,
     hashed_password |-> [pw |-> "initial", salt |-> 0]]

InitUsers ==
    << UserRow(Admin1, "a1@x", "admin", "ann"),
       UserRow(Admin2, "a2@x", "admin", "abe"),
       UserRow(Student1, "s1@x", "student", "sam"),
       UserRow(Student2, "s2@x", "student", "sue") >>

Admins == {Admin1, Admin2}
Students == {Student1, Student2}
Names == {"csc101", "mth102"}
GeoNames == {"csc101"}
Lats == 0 .. MaxCoord
Longs == {0}
CentreLats == {2}          \* classes are centred at latitude 2, longitude 0
CentreLongs == {0}
Radii == {1}
Dates == {0, DayLen}          \* a date of the first day, a date of the second

LowerChar(c) == CASE c = "A" -> "a" [] c = "B" -> "b" [] OTHER -> c

\* str.lower()
Lower(s) == [i \in DOMAIN s |-> LowerChar(s[i])]

\* what "".join(random.choice(characters) for _ in range(6)) may produce
RawCodes == {[i \in 1 .. CodeLen |-> c] : c \in {"a", "A", "b"}}

\* the join codes a request may submit
Codes == {Lower(r) : r \in RawCodes} \cup {[i \in 1 .. CodeLen |-> "z"]}

Min(S) == CHOOSE x \in S : \A y \in S : x <= y

\* first of the rows that matched, 0 when none did (result.scalars().first())
First(hits) == IF hits = {} THEN 0 ELSE Min(hits)

Day(t) == t \div DayLen

Resp(op, status, detail) == [op |-> op, status |-> status, detail |-> detail]
NoResp == Resp("none", 0, "")

\* background_tasks.add_task(send_email, subject, recipients, body)
Task(subject, recipient) == [subject |-> subject, recipients |-> <<recipient>>]

\* a response together with the background tasks the request has scheduled
Scheduled(resp, tasks) ==
    [op |-> resp.op, status |-> resp.status, detail |-> resp.detail,
     background_tasks |-> tasks]
NoLoc == [op |-> "none"]

----------------------------------------------------------------------------
(* Repositories *)

\* UserRepository.get_user_by_email_or_matric: or_(email == email, matric == matric);
\* an argument left None matches no row
NoArg == "None"
get_user_by_email_or_matric(email, matric) ==
    LET Test(u) == (email # NoArg /\ u.email = email)
                   \/ (matric # <<>> /\ u.user_matric = matric)
    IN  First({i \in DOMAIN users : Test(users[i])})

\* GeofenceRepository.get_geofence(name, date)
get_geofence(name, date) ==
    LET Test(g) == g.name = name /\ Day(g.start_time) = Day(date)
    IN  First({i \in DOMAIN geofences : Test(geofences[i])})

\* GeofenceRepository.get_geofence_by_fence_code
get_geofence_by_fence_code(code) ==
    LET Test(g) == g.fence_code = code
    IN  First({i \in DOMAIN geofences : Test(geofences[i])})

\* GeofenceRepository.get_attendance_record_for_student_for_geofence
get_attendance_record(key) ==
    {a \in BagToSet(attendances) : a.matric_fence_code = key}

\* utils.GeofenceUtils.check_user_in_circular_geofence: distance to the centre <= radius
check_user_in_circular_geofence(lat, long, g) ==
    (lat - g.latitude) * (lat - g.latitude) + (long - g.longitude) * (long - g.longitude)
        <= g.radius * g.radius

\* a storage layer without the unique constraint on the join code
GeofenceInsertUnchecked(code) == FALSE

\* the unique constraint on the join code rejects the insert (raises)
GeofenceInsertRejected(code) == get_geofence_by_fence_code(code) # 0

\* a storage layer without the unique constraint on the idempotency key
AttendanceInsertUnchecked(key) == FALSE

\* the unique constraint on the idempotency key rejects the insert (raises)
AttendanceInsertRejected(key) == get_attendance_record(key) # {}

----------------------------------------------------------------------------
(* GeofenceService.create_geofence *)

\* create_geofence refusing a window that ends at this very moment
CreateOutcomeEndNotAfterNow(existing, start, end) ==
    IF existing # 0 THEN Resp("create", 400, "exists")
    ELSE IF start >= end THEN Resp("create", 400, "invalid_duration")
    ELSE IF end <= now THEN Resp("create", 400, "end_in_past")
    ELSE Resp("create", 0, "pending")

\* lines 34-55: the existence check, then the two tests of the time window
CreateOutcome(existing, start, end) ==
    IF existing # 0 THEN Resp("create", 400, "exists")
    ELSE IF start >= end THEN Resp("create", 400, "invalid_duration")
    ELSE IF end < now THEN Resp("create", 400, "end_in_past")
    ELSE Resp("create", 0, "pending")

\* lines 31-56: the code is drawn, the existence check awaited, the window tested
CreateGeofence(p, creator, name, start, end, raw, lat, long, radius) ==
    /\ pc[p] = "idle"
    /\ LET fence_code == Lower(raw)
           out == CreateOutcome(get_geofence(name, start), start, end)
       IN  /\ res' = IF out.detail = "pending" THEN res ELSE out
           /\ IF out.detail = "pending"
              THEN /\ pc' = [pc EXCEPT ![p] = "create_insert"]
                   /\ loc' = [loc EXCEPT ![p] =
                         [op |-> "create",
                          geofence |->
                            [name |-> name, creator_matric |-> creator,
                             start_time |-> start, end_time |-> end,
                             fence_code |-> fence_code, status |-> "active",
                             latitude |-> lat, longitude |-> long, radius |-> radius]]]
              ELSE UNCHANGED <<pc, loc>>
    /\ UNCHANGED <<users, geoVars, authVars, now>>

\* lines 57-66: the insert; an exception of the repository is logged and the call
\* returns None
CreateInsertOutcome(rejected, g) ==
    IF rejected THEN Resp("create", 0, "returned_none")
    ELSE [op |-> "create", status |-> 200, detail |-> "created",
          fence_code |-> g.fence_code, name |-> g.name]

\* an insert that overwrites the stored geofence of the same name and day
CreateInsertUpsert(p) ==
    /\ pc[p] = "create_insert"
    /\ LET g == loc[p].geofence
           old == get_geofence(g.name, g.start_time)
       IN  /\ res' = CreateInsertOutcome(FALSE, g)
           /\ geofences' = IF old # 0 THEN [geofences EXCEPT ![old] = g]
                           ELSE Append(geofences, g)
    /\ pc' = [pc EXCEPT ![p] = "idle"]
    /\ loc' = [loc EXCEPT ![p] = NoLoc]
    /\ UNCHANGED <<users, attendances, authVars, now>>

CreateInsert(p) ==
    /\ pc[p] = "create_insert"
    /\ LET g == loc[p].geofence
           out == CreateInsertOutcome(GeofenceInsertRejected(g.fence_code), g)
       IN  /\ res' = out
           /\ geofences' = IF out.status = 200 THEN Append(geofences, g) ELSE geofences
    /\ pc' = [pc EXCEPT ![p] = "idle"]
    /\ loc' = [loc EXCEPT ![p] = NoLoc]
    /\ UNCHANGED <<users, attendances, authVars, now>>

----------------------------------------------------------------------------
(* GeofenceService.get_geofence *)

GetGeofence(course_title, date) ==
    /\ LET g == get_geofence(course_title, date)
       IN  res' = IF g # 0
                  THEN [op |-> "get", status |-> 200, detail |-> "found",
                        geofence |-> geofences[g]]
                  ELSE Resp("get", 404, "not_found")
    /\ UNCHANGED <<users, geoVars, authVars, now, pc, loc>>

----------------------------------------------------------------------------
(* GeofenceService.deactivate_geofence *)

\* deactivate_geofence without the test for an already inactive geofence
DeactivateOutcomeNoStatusTest(g, user_matric) ==
    IF g = 0 THEN Resp("deactivate", 404, "not_found")
    ELSE IF user_matric # geofences[g].creator_matric THEN Resp("deactivate", 401, "not_creator")
    ELSE Resp("deactivate", 200, "deactivated")

DeactivateOutcome(g, user_matric) ==
    IF g = 0 THEN Resp("deactivate", 404, "not_found")
    ELSE IF geofences[g].status = "inactive" THEN Resp("deactivate", 400, "already_inactive")
    ELSE IF user_matric # geofences[g].creator_matric THEN Resp("deactivate", 401, "not_creator")
    ELSE Resp("deactivate", 200, "deactivated")

\* GeofenceRepository.deactivate_geofence(geofence_name, date)
SetInactive(name, date) ==
    [i \in DOMAIN geofences |->
        IF geofences[i].name = name /\ Day(geofences[i].start_time) = Day(date)
        THEN [geofences[i] EXCEPT !.status = "inactive"]
        ELSE geofences[i]]

DeactivateGeofence(name, date, user_matric) ==
    /\ LET g == get_geofence(name, date)
           out == DeactivateOutcome(g, user_matric)
       IN  /\ res' = out
           /\ geofences' = IF out.status = 200 THEN SetInactive(geofences[g].name, date)
                           ELSE geofences
    /\ UNCHANGED <<users, attendances, authVars, now, pc, loc>>

----------------------------------------------------------------------------
(* GeofenceService.record_geofence_attendance *)

MatricFenceCode(g, user) == g.fence_code \o user.user_matric

\* record_geofence_attendance without the test of the geofence's status
RecordResolveOutcomeNoStatusTest(u, g) ==
    IF u = 0 THEN Resp("record", 404, "user_not_found")
    ELSE IF g = 0 THEN Resp("record", 404, "invalid_fence_code")
    ELSE Resp("record", 0, "pending")

\* lines 165-181: resolve the user and the geofence, check the status
RecordResolveOutcome(u, g) ==
    IF u = 0 THEN Resp("record", 404, "user_not_found")
    ELSE IF g = 0 THEN Resp("record", 404, "invalid_fence_code")
    ELSE IF geofences[g].status # "active" THEN Resp("record", 403, "not_active")
    ELSE Resp("record", 0, "pending")

RecordResolve(p, user_matric, fence_code, lat, long) ==
    /\ pc[p] = "idle"
    /\ LET u == get_user_by_email_or_matric(NoArg, user_matric)
           g == get_geofence_by_fence_code(fence_code)
           out == RecordResolveOutcome(u, g)
       IN  /\ res' = IF out.detail = "pending" THEN res ELSE out
           /\ IF out.detail = "pending"
              THEN /\ pc' = [pc EXCEPT ![p] = "rec_existing"]
                   /\ loc' = [loc EXCEPT ![p] =
                         [op |-> "record", user |-> users[u], geofence |-> geofences[g],
                          lat |-> lat, long |-> long,
                          matric_fence_code |-> MatricFenceCode(geofences[g], users[u])]]
              ELSE UNCHANGED <<pc, loc>>
    /\ UNCHANGED <<users, geoVars, authVars, now>>

\* record_geofence_attendance with the membership test inverted
RecordAdmitOutcomeInverted(existing, inside) ==
    IF existing # {} THEN Resp("record", 403, "already_recorded")
    ELSE IF inside THEN Resp("record", 403, "not_within")
    ELSE Resp("record", 0, "pending")

\* record_geofence_attendance with the membership check before the existence check
RecordAdmitOutcomeGeometryFirst(existing, inside) ==
    IF ~inside THEN Resp("record", 403, "not_within")
    ELSE IF existing # {} THEN Resp("record", 403, "already_recorded")
    ELSE Resp("record", 0, "pending")

\* lines 184-199: the existence check, then the membership check
RecordAdmitOutcome(existing, inside) ==
    IF existing # {} THEN Resp("record", 403, "already_recorded")
    ELSE IF ~inside THEN Resp("record", 403, "not_within")
    ELSE Resp("record", 0, "pending")

RecordAdmit(p) ==
    /\ pc[p] = "rec_existing"
    /\ LET l == loc[p]
           out == RecordAdmitOutcome(get_attendance_record(l.matric_fence_code),
                                     check_user_in_circular_geofence(l.lat, l.long, l.geofence))
       IN  /\ res' = IF out.detail = "pending" THEN res ELSE out
           /\ IF out.detail = "pending"
              THEN /\ pc' = [pc EXCEPT ![p] = "rec_insert"]
                   /\ loc' = loc
              ELSE /\ pc' = [pc EXCEPT ![p] = "idle"]
                   /\ loc' = [loc EXCEPT ![p] = NoLoc]
    /\ UNCHANGED <<users, geoVars, authVars, now>>

\* lines 201-214: the insert; an exception of the repository is answered with 500
RecordInsertOutcome(rejected) ==
    IF rejected THEN Resp("record", 500, "internal")
    ELSE Resp("record", 200, "recorded")

RecordInsert(p) ==
    /\ pc[p] = "rec_insert"
    /\ LET l == loc[p]
           out == RecordInsertOutcome(AttendanceInsertRejected(l.matric_fence_code))
       IN  /\ res' = out
           /\ attendances' =
                 IF out.status = 200
                 THEN attendances (+) SetToBag({
                        [user_matric |-> l.user.user_matric,
                         fence_code |-> l.geofence.fence_code,
                         geofence_name |-> l.geofence.name,
                         matric_fence_code |-> l.matric_fence_code]})
                 ELSE attendances
    /\ pc' = [pc EXCEPT ![p] = "idle"]
    /\ loc' = [loc EXCEPT ![p] = NoLoc]
    /\ UNCHANGED <<users, geofences, authVars, now>>

----------------------------------------------------------------------------
(* GeofenceService.get_geofence_attendances *)

\* GeofenceRepository.get_geofence_attendances
get_geofence_attendances(fence_code) ==
    {a \in BagToSet(attendances) : a.fence_code = fence_code}

\* get_geofence_attendances without the test of the creator
ListResolveOutcomeNoCreatorTest(g, user_id) ==
    IF g = 0 THEN Resp("list", 404, "geofence_not_found")
    ELSE Resp("list", 0, "pending")

\* lines 125-130: the geofence of the code, then the test of the creator
ListResolveOutcome(g, user_id) ==
    IF g = 0 THEN Resp("list", 404, "geofence_not_found")
    ELSE IF geofences[g].creator_matric # user_id THEN Resp("list", 403, "not_authorized")
    ELSE Resp("list", 0, "pending")

ListResolve(p, fence_code, user_id) ==
    /\ pc[p] = "idle"
    /\ LET out == ListResolveOutcome(get_geofence_by_fence_code(fence_code), user_id)
       IN  /\ res' = IF out.detail = "pending" THEN res ELSE out
           /\ IF out.detail = "pending"
              THEN /\ pc' = [pc EXCEPT ![p] = "list_fetch"]
                   /\ loc' = [loc EXCEPT ![p] = [op |-> "list", fence_code |-> fence_code]]
              ELSE UNCHANGED <<pc, loc>>
    /\ UNCHANGED <<users, geoVars, authVars, now>>

\* lines 132-147: the entries, or 404 when there are none
ListFetchOutcome(records) ==
    IF records # {}
    THEN [op |-> "list", status |-> 200, detail |-> "listed",
          attendance_list |->
            {[user_matric |-> a.user_matric,
              username |-> users[get_user_by_email_or_matric(NoArg, a.user_matric)].username,
              fence_code |-> a.fence_code] : a \in records}]
    ELSE Resp("list", 404, "no_records")

ListFetch(p) ==
    /\ pc[p] = "list_fetch"
    /\ res' = ListFetchOutcome(get_geofence_attendances(loc[p].fence_code))
    /\ pc' = [pc EXCEPT ![p] = "idle"]
    /\ loc' = [loc EXCEPT ![p] = NoLoc]
    /\ UNCHANGED <<users, geoVars, authVars, now>>

----------------------------------------------------------------------------
(* UserService.create_new_user *)

\* the users table has a unique matric (passwordresettokens.user_id refers to it)
\* and a unique email: the insert raises for a row that repeats either
UserInsertRejected(email, matric) ==
    \E i \in DOMAIN users : users[i].email = email \/ users[i].user_matric = matric

\* lines 33-38: the existence check
RegisterOutcome(existing) ==
    IF existing # 0 THEN Resp("register", 400, "user_exists")
    ELSE Resp("register", 0, "pending")

RegisterCheck(p, email, matric, role, username) ==
    /\ pc[p] = "idle"
    /\ LET out == RegisterOutcome(get_user_by_email_or_matric(email, matric))
       IN  /\ res' = IF out.detail = "pending" THEN res ELSE out
           /\ IF out.detail = "pending"
              THEN /\ pc' = [pc EXCEPT ![p] = "reg_insert"]
                   /\ loc' = [loc EXCEPT ![p] =
                         [op |-> "register", user |-> UserRow(matric, email, role, username)]]
              ELSE UNCHANGED <<pc, loc>>
    /\ UNCHANGED <<users, geoVars, authVars, now>>

\* lines 40-52: the insert; an exception of the repository is answered with 500
RegisterInsertOutcome(rejected) ==
    IF rejected THEN Resp("register", 500, "internal")
    ELSE Resp("register", 200, "added")

RegisterInsert(p) ==
    /\ pc[p] = "reg_insert"
    /\ LET u == loc[p].user
           out == RegisterInsertOutcome(UserInsertRejected(u.email, u.user_matric))
       IN  /\ res' = out
           /\ users' = IF out.status = 200 THEN Append(users, u) ELSE users
    /\ pc' = [pc EXCEPT ![p] = "idle"]
    /\ loc' = [loc EXCEPT ![p] = NoLoc]
    /\ UNCHANGED <<geoVars, authVars, now>>

----------------------------------------------------------------------------
(* Sessions (auth/sessions, SessionRepository) *)

\* a login: a new opaque token, the index of its row, owned by user_matric
IssueSession(user_matric) ==
    /\ Len(sessions) < MaxSessions
    /\ sessions' = Append(sessions, [user_matric |-> user_matric, is_active |-> TRUE])
    /\ UNCHANGED <<users, geoVars, reset_tokens, now, pc, loc, res>>

\* validateSession, the lookup every authenticated request starts with: the token
\* is stored and active
SessionAccepted(token) == token \in DOMAIN sessions /\ sessions[token].is_active

\* SessionRepository.deactivate_all_user_sessions
deactivate_all_user_sessions(user_matric) ==
    [i \in DOMAIN sessions |->
        IF sessions[i].user_matric = user_matric
        THEN [sessions[i] EXCEPT !.is_active = FALSE]
        ELSE sessions[i]]

----------------------------------------------------------------------------
(* Password reset tokens (PasswordResetTokenRepository, jose.jwt) *)

\* jwt.encode: the signed string is a function of the claims
Encode(email, username, user_matric, exp) ==
    [sub |-> email, username |-> username, user_matric |-> user_matric, exp |-> exp]

\* jwt.decode raises ExpiredSignatureError, a JWTError, when exp lies in the past
DecodeRaisesJWTError(token) == token.exp < now

\* PasswordResetTokenRepository.get_token
get_token(token) == {r \in reset_tokens : r.token = token}

\* PasswordResetTokenRepository.get_token_by_matric: the unused tokens of the user
get_token_by_matric(user_matric) ==
    {r \in reset_tokens : r.user_id = user_matric /\ ~r.is_used}

\* PasswordResetTokenRepository.set_token_is_used(user_matric=...)
set_token_is_used_by_matric(user_matric) ==
    {IF r.user_id = user_matric THEN [r EXCEPT !.is_used = TRUE] ELSE r : r \in reset_tokens}

\* PasswordResetTokenRepository.set_token_is_used(token) and deactivate_token(token)
set_token_is_used(token) ==
    {IF r.token = token THEN [r EXCEPT !.is_used = TRUE] ELSE r : r \in reset_tokens}

\* PasswordResetToken.token is unique: add_token raises for a token already stored
AddTokenRejected(token) == get_token(token) # {}

----------------------------------------------------------------------------
(* UserService.send_reset_password_email and __generate_password_reset_token *)

\* __generate_password_reset_token that never looks for the user's earlier token
GenNextStepNoLookup(existing) == "gen_insert"

\* lines 106-108: an earlier token of the user is marked used before the new one is made
GenNextStep(existing) == IF existing # {} THEN "gen_mark" ELSE "gen_insert"

\* send_reset_password_email answering an unknown email with an error
ResetLookupUnknownFails(p, email) ==
    /\ pc[p] = "idle"
    /\ LET u == get_user_by_email_or_matric(email, <<>>)
       IN  IF u = 0
           THEN /\ res' = Scheduled(Resp("reset", 404, "user_not_found"), <<>>)
                /\ UNCHANGED <<pc, loc>>
           ELSE /\ pc' = [pc EXCEPT ![p] = GenNextStep(get_token_by_matric(users[u].user_matric))]
                /\ loc' = [loc EXCEPT ![p] = [op |-> "reset", user |-> users[u]]]
                /\ res' = res
    /\ UNCHANGED <<users, geoVars, authVars, now>>

\* lines 182-184 and 106-107: an unknown email ends the call at once, with no error
ResetLookup(p, email) ==
    /\ pc[p] = "idle"
    /\ LET u == get_user_by_email_or_matric(email, <<>>)
       IN  IF u = 0
           THEN /\ res' = Scheduled(Resp("reset", 200, "ok"), <<>>)
                /\ UNCHANGED <<pc, loc>>
           ELSE /\ pc' = [pc EXCEPT ![p] = GenNextStep(get_token_by_matric(users[u].user_matric))]
                /\ loc' = [loc EXCEPT ![p] = [op |-> "reset", user |-> users[u]]]
                /\ res' = res
    /\ UNCHANGED <<users, geoVars, authVars, now>>

ResetMark(p) ==
    /\ pc[p] = "gen_mark"
    /\ reset_tokens' = set_token_is_used_by_matric(loc[p].user.user_matric)
    /\ pc' = [pc EXCEPT ![p] = "gen_insert"]
    /\ UNCHANGED <<users, geoVars, sessions, now, loc, res>>

\* lines 111-133 and 192-224: an exception of add_token is answered with 500
ResetInsert(p) ==
    /\ pc[p] = "gen_insert"
    /\ LET l == loc[p]
           expires == now + TTL
           token == Encode(l.user.email, l.user.username, l.user.user_matric, expires)
       IN  IF AddTokenRejected(token)
           THEN /\ res' = Scheduled(Resp("reset", 500, "internal"), <<>>)
                /\ reset_tokens' = reset_tokens
           ELSE /\ res' = Scheduled(Resp("reset", 200, "ok"),
                                     <<Task("Password Reset Request", l.user.email)>>)
                /\ reset_tokens' = reset_tokens \cup
                      {[user_id |-> l.user.user_matric, token |-> token,
                        expires_at |-> expires, is_used |-> FALSE]}
    /\ pc' = [pc EXCEPT ![p] = "idle"]
    /\ loc' = [loc EXCEPT ![p] = NoLoc]
    /\ UNCHANGED <<users, geoVars, sessions, now>>

----------------------------------------------------------------------------
(* UserService.__decode_password_reset_token and change_password *)

\* __decode_password_reset_token without the is_used test
DecodeNextStepNoUsedTest(existing, token) ==
    IF existing = {} THEN "rejected"
    ELSE IF DecodeRaisesJWTError(token) THEN "cp_deactivate"
    ELSE "cp_mark"

\* __decode_password_reset_token verifying the signature and expiry first
DecodeNextStepVerifyFirst(existing, token) ==
    IF DecodeRaisesJWTError(token) THEN "cp_deactivate"
    ELSE IF existing = {} \/ \E r \in existing : r.is_used THEN "rejected"
    ELSE "cp_mark"

\* lines 139-148: the persisted record first, the signature and expiry second
DecodeNextStep(existing, token) ==
    IF existing = {} \/ \E r \in existing : r.is_used THEN "rejected"
    ELSE IF DecodeRaisesJWTError(token) THEN "cp_deactivate"
    ELSE "cp_mark"

ChangeLookup(p, token, new_password) ==
    /\ pc[p] = "idle"
    /\ LET next == DecodeNextStep(get_token(token), token)
       IN  IF next = "rejected"
           THEN /\ res' = Resp("change", 400, "invalid_link")
                /\ UNCHANGED <<pc, loc>>
           ELSE /\ pc' = [pc EXCEPT ![p] = next]
                /\ loc' = [loc EXCEPT ![p] =
                      [op |-> "change", token |-> token, new_password |-> new_password]]
                /\ res' = res
    /\ UNCHANGED <<users, geoVars, authVars, now>>

\* a JWTError answered with 401 while the record is left as it is
ChangeDeactivateLeavesRecord(p) ==
    /\ pc[p] = "cp_deactivate"
    /\ res' = Resp("change", 401, "invalid_link")
    /\ pc' = [pc EXCEPT ![p] = "idle"]
    /\ loc' = [loc EXCEPT ![p] = NoLoc]
    /\ UNCHANGED <<users, geoVars, authVars, now>>

\* lines 166-171: a JWTError deactivates the record and is answered with 401
ChangeDeactivate(p) ==
    /\ pc[p] = "cp_deactivate"
    /\ reset_tokens' = set_token_is_used(loc[p].token)
    /\ res' = Resp("change", 401, "invalid_link")
    /\ pc' = [pc EXCEPT ![p] = "idle"]
    /\ loc' = [loc EXCEPT ![p] = NoLoc]
    /\ UNCHANGED <<users, geoVars, sessions, now>>

\* lines 149-165: the claims are read and the record is marked used
ChangeMark(p) ==
    /\ pc[p] = "cp_mark"
    /\ reset_tokens' = set_token_is_used(loc[p].token)
    /\ pc' = [pc EXCEPT ![p] = "cp_password"]
    /\ loc' = [loc EXCEPT ![p] =
          [op |-> "change", token |-> loc[p].token, new_password |-> loc[p].new_password,
           user |-> [email |-> loc[p].token.sub, username |-> loc[p].token.username,
                     user_matric |-> loc[p].token.user_matric]]]
    /\ UNCHANGED <<users, geoVars, sessions, now, res>>

\* bcrypt_context.hash: salted, so never the hash it replaces nor an earlier one
Hash(password, old) == [pw |-> password, salt |-> old.salt + 1]

\* an update of the password column without the filter on the email
change_every_user_password(user_email, new_hashed_password) ==
    [i \in DOMAIN users |-> [users[i] EXCEPT !.hashed_password = new_hashed_password]]

\* UserRepository.change_user_password
change_user_password(user_email, new_hashed_password) ==
    LET u == get_user_by_email_or_matric(user_email, <<>>)
    IN  [users EXCEPT ![u].hashed_password = new_hashed_password]

\* lines 232-235
ChangePassword(p) ==
    /\ pc[p] = "cp_password"
    /\ LET u == get_user_by_email_or_matric(loc[p].user.email, <<>>)
       IN  users' = change_user_password(loc[p].user.email,
                       Hash(loc[p].new_password, users[u].hashed_password))
    /\ pc' = [pc EXCEPT ![p] = "cp_sessions"]
    /\ UNCHANGED <<geoVars, sessions, reset_tokens, now, loc, res>>

\* change_password without the revocation of the sessions
RevokedSessionsSkipped(claims) == sessions

\* lines 237-238
RevokedSessions(claims) == deactivate_all_user_sessions(claims.user_matric)

\* lines 237-261
ChangeSessions(p) ==
    /\ pc[p] = "cp_sessions"
    /\ sessions' = RevokedSessions(loc[p].user)
    /\ res' = Scheduled(Resp("change", 200, "changed"),
                        <<Task("Password Changed.", loc[p].user.email)>>)
    /\ pc' = [pc EXCEPT ![p] = "idle"]
    /\ loc' = [loc EXCEPT ![p] = NoLoc]
    /\ UNCHANGED <<users, geoVars, reset_tokens, now>>

----------------------------------------------------------------------------

Tick ==
    /\ now < MaxTime
    /\ now' = now + 1
    /\ UNCHANGED <<users, geoVars, authVars, pc, loc, res>>

Init ==
    /\ users = InitUsers
    /\ geofences = <<>>
    /\ attendances = EmptyBag
    /\ sessions = <<>>
    /\ reset_tokens = {}
    /\ now = 0
    /\ pc = [p \in Procs |-> "idle"]
    /\ loc = [p \in Procs |-> NoLoc]
    /\ res = NoResp

\* the time windows a create request may carry: a class of the first day, a second
\* one later that day, a class of the second day, an empty and a reversed window
Windows == {<<0, 1>>, <<1, DayLen>>, <<DayLen, DayLen + 1>>, <<1, 1>>, <<1, 0>>}

\* the geofence lifecycle: create, read, deactivate, the clock
GeoNext ==
    \/ \E p \in Procs, name \in GeoNames, w \in Windows,
          raw \in RawCodes, lat \in CentreLats, long \in CentreLongs, radius \in Radii :
            CreateGeofence(p, Admin1, name, w[1], w[2], raw, lat, long, radius)
    \/ \E p \in Procs : CreateInsert(p)
    \/ \E name \in GeoNames, date \in Dates : GetGeofence(name, date)
    \/ \E name \in GeoNames, date \in Dates, m \in Admins :
            DeactivateGeofence(name, date, m)
    \/ Tick

SpecGeo == Init /\ [][GeoNext]_vars

\* every operation on geofences and attendance together, without the clock
LifeNext ==
    \/ \E p \in Procs, name \in GeoNames, raw \in RawCodes,
          lat \in CentreLats, long \in CentreLongs, radius \in Radii :
            CreateGeofence(p, Admin1, name, 0, 1, raw, lat, long, radius)
    \/ \E p \in Procs : CreateInsert(p)
    \/ \E name \in GeoNames, date \in Dates : GetGeofence(name, date)
    \/ \E name \in GeoNames, date \in Dates, m \in Admins :
            DeactivateGeofence(name, date, m)
    \/ \E p \in Procs, code \in Codes, lat \in Lats, long \in Longs :
            RecordResolve(p, Student1, code, lat, long)
    \/ \E p \in Procs : RecordAdmit(p)
    \/ \E p \in Procs : RecordInsert(p)
    \/ \E p \in Procs, code \in Codes, m \in Admins : ListResolve(p, code, m)
    \/ \E p \in Procs : ListFetch(p)

SpecLife == Init /\ [][LifeNext]_vars

GeofenceRow(name, creator, start, end, code) ==
    [name |-> name, creator_matric |-> creator, start_time |-> start, end_time |-> end,
     fence_code |-> code, status |-> "active", latitude |-> 2, longitude |-> 0, radius |-> 1]

\* two classes as create_geofence stores them, centred at latitude 2 with radius 1:
\* latitude 1 is on the boundary, latitude 0 outside
TwoClasses ==
    << GeofenceRow("csc101", Admin1, 0, 1, [i \in 1 .. CodeLen |-> "a"]),
       GeofenceRow("mth102", Admin2, 0, 1, [i \in 1 .. CodeLen |-> "b"]) >>

InitAttend ==
    /\ users = InitUsers
    /\ geofences = TwoClasses
    /\ attendances = EmptyBag
    /\ sessions = <<>>
    /\ reset_tokens = {}
    /\ now = 0
    /\ pc = [p \in Procs |-> "idle"]
    /\ loc = [p \in Procs |-> NoLoc]
    /\ res = NoResp

\* attendance: students check in while the creators may close their classes
AttendNext ==
    \/ \E p \in Procs, m \in Students \cup {Ghost}, code \in Codes, lat \in Lats, long \in Longs :
            RecordResolve(p, m, code, lat, long)
    \/ \E p \in Procs : RecordAdmit(p)
    \/ \E p \in Procs : RecordInsert(p)
    \/ \E name \in Names, date \in Dates, m \in Admins :
            DeactivateGeofence(name, date, m)

SpecAttend == InitAttend /\ [][AttendNext]_vars

\* the creators read the attendance lists while students check in
ListNext ==
    \/ \E p \in Procs, m \in Students, code \in Codes, lat \in Lats, long \in Longs :
            RecordResolve(p, m, code, lat, long)
    \/ \E p \in Procs : RecordAdmit(p)
    \/ \E p \in Procs : RecordInsert(p)
    \/ \E p \in Procs, code \in Codes, m \in Admins : ListResolve(p, code, m)
    \/ \E p \in Procs : ListFetch(p)

SpecList == InitAttend /\ [][ListNext]_vars

ResetEmails == {"s1@x", "nobody@x"}
ResetUsers == {u \in {InitUsers[i] : i \in DOMAIN InitUsers} : u.email \in ResetEmails}
NewPasswords == {"hunter2"}

\* the reset links a caller may present: every link the service can have issued
Tokens == {Encode(u.email, u.username, u.user_matric, e) :
              u \in ResetUsers, e \in TTL .. MaxTime + TTL}

\* password recovery and sessions
AuthNext ==
    \/ \E m \in Students : IssueSession(m)
    \/ \E p \in Procs, email \in ResetEmails : ResetLookup(p, email)
    \/ \E p \in Procs : ResetMark(p)
    \/ \E p \in Procs : ResetInsert(p)
    \/ \E p \in Procs, token \in Tokens, pw \in NewPasswords : ChangeLookup(p, token, pw)
    \/ \E p \in Procs : ChangeDeactivate(p)
    \/ \E p \in Procs : ChangeMark(p)
    \/ \E p \in Procs : ChangePassword(p)
    \/ \E p \in Procs : ChangeSessions(p)
    \/ Tick

SpecAuth == Init /\ [][AuthNext]_vars

\* the emails and matrics a registration may carry: those of a registered student
\* and new ones
RegEmails == {"s1@x", "n1@x", "n2@x"}
RegMatrics == {Student1, <<"n", "1">>, <<"n", "2">>}

\* registration
RegNext ==
    \/ \E p \in Procs, email \in RegEmails, matric \in RegMatrics :
            RegisterCheck(p, email, matric, "student", "new")
    \/ \E p \in Procs : RegisterInsert(p)

SpecReg == Init /\ [][RegNext]_vars

\* a reset link as __generate_password_reset_token stores it for user u at time t
IssuedToken(u, t) ==
    [user_id |-> u.user_matric,
     token |-> Encode(u.email, u.username, u.user_matric, t + TTL),
     expires_at |-> t + TTL, is_used |-> FALSE]

\* both students have logged in and have asked for a reset link
InitChange ==
    /\ users = InitUsers
    /\ geofences = TwoClasses
    /\ attendances = EmptyBag
    /\ sessions = << [user_matric |-> Student1, is_active |-> TRUE],
                     [user_matric |-> Student2, is_active |-> TRUE] >>
    /\ reset_tokens = {IssuedToken(InitUsers[3], 0), IssuedToken(InitUsers[4], 0)}
    /\ now = 0
    /\ pc = [p \in Procs |-> "idle"]
    /\ loc = [p \in Procs |-> NoLoc]
    /\ res = NoResp

\* the links the two students may present
ChangeTokens == {IssuedToken(InitUsers[i], 0).token : i \in {3, 4}}

\* password changes with the links and sessions issued beforehand
ChangeNext ==
    \/ \E p \in Procs, token \in ChangeTokens, pw \in NewPasswords : ChangeLookup(p, token, pw)
    \/ \E p \in Procs : ChangeDeactivate(p)
    \/ \E p \in Procs : ChangeMark(p)
    \/ \E p \in Procs : ChangePassword(p)
    \/ \E p \in Procs : ChangeSessions(p)
    \/ Tick

SpecChange == InitChange /\ [][ChangeNext]_vars

----------------------------------------------------------------------------
(* Attendance claims, checked under SpecAttend *)

AttendanceRows == BagToSet(attendances)

\* C1: in every reachable state, also after interleaved record_geofence_attendance
\* calls, at most one attendance record exists per (user, join code) pair and no
\* two records share the idempotency key.
C1_OneRecordPerUserAndGeofence ==
    \A a \in AttendanceRows :
        /\ CopiesIn(a, attendances) = 1
        /\ \A b \in AttendanceRows :
              (a.matric_fence_code = b.matric_fence_code
                 \/ (a.user_matric = b.user_matric /\ a.fence_code = b.fence_code))
              => a = b

\* two calls for the same key both passed the existence check; one inserted and the
\* other was rejected by the storage layer
C1_Witness ==
    /\ res.op = "record" /\ res.status = 500
    /\ \E a \in AttendanceRows : a.user_matric = Student1

\* C2: a recordAttendance call of an existing user on an active geofence from within
\* the radius ends as success or as the "already recorded" conflict, never as a
\* generic internal error, also when two calls for the same key interleave.
C2_LoserGetsConflict ==
    (res.op = "record"
       /\ res.detail \notin {"user_not_found", "invalid_fence_code", "not_active", "not_within"})
    => res.detail \in {"recorded", "already_recorded"}

\* C3: recordAttendance against a geofence whose status is inactive fails at once and
\* leaves the attendance records unchanged, for every user and every coordinate.
C3_InactiveGeofenceRejects ==
    [][\A p \in Procs, m \in Students \cup {Ghost}, code \in Codes, lat \in Lats, long \in Longs :
          (/\ pc[p] = "idle" /\ res'.op = "record"
           /\ \E i \in DOMAIN geofences :
                 geofences[i].fence_code = code /\ geofences[i].status = "inactive"
           /\ RecordResolve(p, m, code, lat, long))
          => /\ attendances' = attendances
             /\ pc'[p] = "idle"
             /\ res'.op = "record" /\ res'.status \in {403, 404}
             /\ (m \in Students => res'.detail = "not_active")]_vars

\* a call was refused because the class was closed, while a record of that class exists
C3_Witness ==
    /\ res.op = "record" /\ res.detail = "not_active"
    /\ \E i \in DOMAIN geofences :
          /\ geofences[i].status = "inactive"
          /\ \E a \in AttendanceRows : a.fence_code = geofences[i].fence_code

Inside(l) ==
    (l.lat - l.geofence.latitude) * (l.lat - l.geofence.latitude)
      + (l.long - l.geofence.longitude) * (l.long - l.geofence.longitude)
      <= l.geofence.radius * l.geofence.radius

HasRecord(key) == \E a \in AttendanceRows : a.matric_fence_code = key

C9_NonCreatorAlwaysUnauthorized ==
    [][\A name \in Names, date \in Dates, m \in Admins :
          (/\ res'.op = "deactivate"
           /\ get_geofence(name, date) # 0
           /\ geofences[get_geofence(name, date)].creator_matric # m
           /\ DeactivateGeofence(name, date, m))
          => /\ res' = Resp("deactivate", 401, "not_creator")
             /\ geofences' = geofences]_vars

\* C10: deactivateGeofence by the creator on an active geofence succeeds and sets the
\* status to inactive; on an already inactive one it fails with Conflict; for a name
\* and date that match no geofence it fails with NotFound and changes nothing.
C10_CreatorDeactivatesOnce ==
    [][\A name \in Names, date \in Dates, m \in Admins :
          (res'.op = "deactivate" /\ DeactivateGeofence(name, date, m)) =>
            LET g == get_geofence(name, date)
            IN  /\ g = 0 => res' = Resp("deactivate", 404, "not_found") /\ geofences' = geofences
                /\ (g # 0 /\ geofences[g].creator_matric = m /\ geofences[g].status = "active")
                   => /\ res' = Resp("deactivate", 200, "deactivated")
                      /\ geofences' = [geofences EXCEPT ![g].status = "inactive"]
                /\ (g # 0 /\ geofences[g].creator_matric = m /\ geofences[g].status = "inactive")
                   => /\ res' = Resp("deactivate", 400, "already_inactive")
                      /\ geofences' = geofences
                /\ UNCHANGED <<users, attendances, authVars, now, pc, loc>>]_vars

\* the creator's second call has just been answered with Conflict
C10_Witness ==
    /\ res = Resp("deactivate", 400, "already_inactive")
    /\ \E i \in DOMAIN geofences : geofences[i].status = "inactive"

\* C19: every createGeofence call ends either with {joinCode, name} and the
\* geofence persisted, or with a typed error and nothing persisted; a failure of
\* the insert, such as a join-code collision, never ends the call with no result
\* and no error.
C19_CreateEndsInResultOrError ==
    res.op = "create" => (res.status = 200 \/ res.status >= 400)

\* C20: no two stored geofences have the same name and the same start date, also
\* when two createGeofence calls of the same name and start date interleave so
\* that both run the existence check before either inserts.
C20_UniqueNameAndStartDate ==
    \A i, j \in DOMAIN geofences :
        (geofences[i].name = geofences[j].name
           /\ Day(geofences[i].start_time) = Day(geofences[j].start_time))
        => i = j

\* C21: in every reachable state no two active geofences have the same join code,
\* whatever the create calls and whatever the code generator draws, so a join code
\* resolves to at most one geofence.
C21_UniqueJoinCode ==
    \A i, j \in DOMAIN geofences :
        (geofences[i].fence_code = geofences[j].fence_code
           /\ geofences[i].status = "active" /\ geofences[j].status = "active")
        => i = j

\* the generator drew a code a stored geofence has, the insert was rejected, and
\* two geofences with different codes are stored
C21_Witness ==
    /\ res = Resp("create", 0, "returned_none")
    /\ Len(geofences) = 2
    /\ geofences[1].fence_code # geofences[2].fence_code
    /\ \A p \in Procs : pc[p] = "idle"

----------------------------------------------------------------------------
(* Password recovery claims, checked under SpecAuth *)

Row(token) == CHOOSE r \in reset_tokens : r.token = token
Stored(token) == \E r \in reset_tokens : r.token = token
Unexpired(token) == token.exp >= now
UserOf(token) == get_user_by_email_or_matric(token.sub, <<>>)

\* C5: changePassword with a stored, unused, unexpired reset token is accepted and
\* succeeds, replacing the user's password hash; a used token stays used for ever,
\* and every changePassword call made with it is refused at once with the user's
\* password hash (and everything else) unchanged.
C5_ResetTokenSingleUse ==
    [][/\ \A r \in reset_tokens :
             r.is_used => \E r2 \in reset_tokens' : r2.token = r.token
                          /\ \A r3 \in reset_tokens' : r3.token = r.token => r3.is_used
       /\ \A p \in Procs :
            /\ \A token \in Tokens, pw \in NewPasswords :
                  (pc[p] = "idle" /\ Stored(token) /\ ChangeLookup(p, token, pw)) =>
                     IF Row(token).is_used
                     THEN /\ res' = Resp("change", 400, "invalid_link")
                          /\ UNCHANGED <<users, sessions, reset_tokens, pc, loc>>
                     ELSE Unexpired(token) => pc'[p] = "cp_mark"
            /\ (pc[p] = "cp_mark" /\ pc'[p] # "cp_mark") =>
                  pc'[p] = "cp_password" /\ Row(loc[p].token)'.is_used
            /\ (pc[p] = "cp_password" /\ pc'[p] # "cp_password") =>
                  /\ pc'[p] = "cp_sessions"
                  /\ users'[UserOf(loc[p].token)].hashed_password
                       # users[UserOf(loc[p].token)].hashed_password
                  /\ users'[UserOf(loc[p].token)].hashed_password.pw = loc[p].new_password
            /\ (pc[p] = "cp_sessions" /\ pc'[p] # "cp_sessions") =>
                  pc'[p] = "idle" /\ res'.op = "change" /\ res'.status = 200]_vars

\* the only reset link ever issued has changed the password once, and a later call
\* has just been refused
C5_Witness ==
    /\ res = Resp("change", 400, "invalid_link")
    /\ Cardinality(reset_tokens) = 1
    /\ \A r \in reset_tokens : r.is_used /\ r.token.exp >= now
    /\ users[3].hashed_password.salt = 1
    /\ \A p \in Procs : pc[p] = "idle"

\* C6: when changePassword returns success, every session of the user who owns the
\* reset token is inactive, so validateSession refuses it, and it stays so for ever;
\* the sessions of the other users are as they were and are still accepted.
C6_PasswordChangeRevokesSessions ==
    [][/\ \A i \in DOMAIN sessions :
            /\ i \in DOMAIN sessions'
            /\ sessions'[i].user_matric = sessions[i].user_matric
            /\ ~SessionAccepted(i) => ~SessionAccepted(i)'
       /\ \A p \in Procs :
            (pc[p] = "cp_sessions" /\ pc'[p] = "idle") =>
               /\ res'.op = "change" /\ res'.status = 200
               /\ \A i \in DOMAIN sessions :
                     IF sessions[i].user_matric = loc[p].token.user_matric
                     THEN ~SessionAccepted(i)'
                     ELSE sessions'[i] = sessions[i] /\ SessionAccepted(i)' = SessionAccepted(i)]_vars

\* a password change has just succeeded: the owner's session is revoked, the session
\* of another user is still active
C6_Witness ==
    /\ res.op = "change" /\ res.status = 200
    /\ \E i, j \in DOMAIN sessions :
          /\ sessions[i].user_matric = Student1 /\ ~SessionAccepted(i)
          /\ sessions[j].user_matric = Student2 /\ SessionAccepted(j)

\* C7: a requestPasswordReset that starts when the user has an unused token T1 marks
\* T1 used before it stores its own token T2; from then on validating T1 is refused
\* as an invalid link, also while T1 has not expired, and T2 is stored unused and
\* unexpired, so that it is accepted.
C7_SecondTokenInvalidatesFirst ==
    [][\A p \in Procs :
          /\ \A email \in ResetEmails :
                (/\ pc[p] = "idle"
                 /\ \E r \in reset_tokens : r.token.sub = email /\ ~r.is_used
                 /\ ResetLookup(p, email))
                => pc'[p] = "gen_mark"
          /\ (pc[p] = "gen_mark" /\ pc'[p] # "gen_mark") =>
                /\ pc'[p] = "gen_insert"
                /\ \A r \in reset_tokens' : r.user_id = loc[p].user.user_matric => r.is_used
          /\ (pc[p] = "gen_insert" /\ res'.op = "reset" /\ res'.status = 200 /\ ResetInsert(p)) =>
                \E r \in reset_tokens' \ reset_tokens :
                   /\ reset_tokens' = reset_tokens \cup {r}
                   /\ r.user_id = loc[p].user.user_matric /\ r.token.sub = loc[p].user.email
                   /\ ~r.is_used /\ r.token.exp >= now /\ r.expires_at = r.token.exp
          /\ \A token \in Tokens, pw \in NewPasswords :
                (pc[p] = "idle" /\ Stored(token) /\ ChangeLookup(p, token, pw)) =>
                   IF Row(token).is_used
                   THEN res' = Resp("change", 400, "invalid_link") /\ pc'[p] = "idle"
                   ELSE Unexpired(token) => pc'[p] = "cp_mark"]_vars

\* T1 and the later T2 of one user are stored, T1 used and not expired, T2 unused,
\* and a validation has just been refused
C7_Witness ==
    /\ res = Resp("change", 400, "invalid_link")
    /\ \E r1, r2 \in reset_tokens :
          /\ r1.user_id = r2.user_id /\ r1.expires_at < r2.expires_at
          /\ r1.is_used /\ r1.expires_at >= now
          /\ ~r2.is_used
    /\ users[3].hashed_password.salt = 0

\* C8: in every reachable state each user has at most one reset token with
\* used = false, also when two requestPasswordReset calls for the user interleave.
C8_OneUnusedTokenPerUser ==
    \A m \in Students :
        Cardinality({r \in reset_tokens : r.user_id = m /\ ~r.is_used}) <= 1

----------------------------------------------------------------------------
(* Lifecycle claims *)

\* C11: in no sequence of create, deactivate, record and read operations does a
\* geofence that is inactive become active again: every step keeps the stored
\* geofences in place and leaves an inactive one inactive.  Checked under SpecLife.
C11_StatusOnlyMovesToInactive ==
    [][/\ Len(geofences') >= Len(geofences)
       /\ \A i \in DOMAIN geofences :
             geofences[i].status = "inactive" => geofences'[i].status = "inactive"]_vars

\* a create that had passed its existence check inserted after the class of the
\* same name was closed: the closed one stays closed beside the new one
C11_Witness ==
    /\ res.op = "create" /\ res.status = 200
    /\ \E i, j \in DOMAIN geofences :
          /\ i < j
          /\ geofences[i].status = "inactive"
          /\ geofences[j].status = "active"
          /\ geofences[i].name = geofences[j].name

----------------------------------------------------------------------------
(* Creation claims, checked under SpecGeo *)

\* C12: createGeofence with start >= end, or with end < now whatever the start,
\* always fails with the validation error and persists nothing, whatever geofences
\* the store already holds.
C12_BadWindowIsValidationError ==
    [][\A p \in Procs, name \in GeoNames, w \in Windows, raw \in RawCodes,
         lat \in CentreLats, long \in CentreLongs, radius \in Radii :
          (/\ pc[p] = "idle"
           /\ w[1] >= w[2] \/ w[2] < now
           /\ CreateGeofence(p, Admin1, name, w[1], w[2], raw, lat, long, radius))
          => /\ res'.op = "create"
             /\ res'.detail \in {"invalid_duration", "end_in_past"}
             /\ geofences' = geofences
             /\ pc'[p] = "idle"]_vars

\* the insert of process p stored its geofence, answered with the code and the
\* name, and get_geofence now finds that geofence, active
CreatedAndFound(p) ==
    LET g == loc[p].geofence
    IN  /\ res'.op = "create" /\ res'.status = 200
        /\ res'.fence_code = g.fence_code /\ Len(res'.fence_code) = CodeLen
        /\ res'.name = g.name
        /\ geofences' = Append(geofences, g)
        /\ g.status = "active"
        /\ \A name \in {g.name}, date \in {g.start_time} :
              /\ get_geofence(name, date)' # 0
              /\ geofences'[get_geofence(name, date)'] = g

----------------------------------------------------------------------------
(* Password recovery claims, checked under SpecAuth *)

\* C14: requestPasswordReset for an email that matches no user returns the success
\* an existing user gets, inserts no reset token, marks no reset token used,
\* schedules no notification and changes nothing else; a request that did store a
\* token returns the same status and detail, with the notification scheduled.
C14_UnknownEmailSucceedsSilently ==
    [][\A p \in Procs :
          /\ \A email \in ResetEmails :
                (/\ pc[p] = "idle"
                 /\ \A i \in DOMAIN users : users[i].email # email
                 /\ ResetLookup(p, email))
                => /\ res'.op = "reset" /\ res'.status = 200 /\ res'.detail = "ok"
                   /\ res'.background_tasks = <<>>
                   /\ UNCHANGED <<users, geoVars, sessions, reset_tokens, now, pc, loc>>
          /\ (pc[p] = "gen_insert" /\ ResetInsert(p) /\ reset_tokens' # reset_tokens)
                => /\ res'.op = "reset" /\ res'.status = 200 /\ res'.detail = "ok"
                   /\ res'.background_tasks
                        = <<Task("Password Reset Request", loc[p].user.email)>>]_vars

\* a request for an unknown email has just been answered while an unused token of
\* a user is stored and another request is under way
C14_Witness ==
    /\ res.op = "reset" /\ res.status = 200 /\ res.background_tasks = <<>>
    /\ \E r \in reset_tokens : ~r.is_used
    /\ \E p \in Procs : pc[p] = "gen_mark"

----------------------------------------------------------------------------
(* Attendance list claims, checked under SpecList *)

Entries(code) ==
    {[user_matric |-> a.user_matric,
      username |-> (CHOOSE u \in {users[i] : i \in DOMAIN users} :
                       u.user_matric = a.user_matric).username,
      fence_code |-> a.fence_code] : a \in {b \in AttendanceRows : b.fence_code = code}}

\* C15: listAttendances returns entries only to the creator of the geofence with
\* the join code: any other requester of an existing geofence gets the
\* authorization failure whether or not records exist, an unknown join code gets
\* NotFound, and the creator gets NotFound when there are no records and the
\* entries of that geofence otherwise; no call changes the records.
C15_OnlyCreatorListsAttendances ==
    [][\A p \in Procs :
          /\ \A code \in Codes, m \in Admins :
                (pc[p] = "idle" /\ ListResolve(p, code, m)) =>
                   /\ attendances' = attendances
                   /\ IF \A i \in DOMAIN geofences : geofences[i].fence_code # code
                      THEN res' = Resp("list", 404, "geofence_not_found") /\ pc'[p] = "idle"
                      ELSE IF \E i \in DOMAIN geofences :
                                 /\ geofences[i].fence_code = code
                                 /\ geofences[i].creator_matric # m
                      THEN res' = Resp("list", 403, "not_authorized") /\ pc'[p] = "idle"
                      ELSE pc'[p] = "list_fetch" /\ loc'[p].fence_code = code /\ res' = res
          /\ (pc[p] = "list_fetch" /\ ListFetch(p)) =>
                /\ attendances' = attendances
                /\ pc'[p] = "idle"
                /\ IF Entries(loc[p].fence_code) = {}
                   THEN res' = Resp("list", 404, "no_records")
                   ELSE /\ res'.op = "list" /\ res'.status = 200
                        /\ res'.attendance_list = Entries(loc[p].fence_code)]_vars

\* a requester who is not the creator has just been refused while every class has
\* attendance records
C15_Witness ==
    /\ res = Resp("list", 403, "not_authorized")
    /\ \A i \in DOMAIN geofences :
          \E a \in AttendanceRows : a.fence_code = geofences[i].fence_code

\* C16: a validation of a stored, unused reset token whose verification fails (the
\* token has expired) marks the record used before the authentication error is
\* returned, so every later call with that token is refused; no expired token is
\* ever accepted, and the refused call changes no password and no session.
C16_FailedVerificationInvalidatesToken ==
    [][\A p \in Procs :
          /\ \A token \in Tokens, pw \in NewPasswords :
                /\ (/\ pc[p] = "idle"
                    /\ Stored(token) /\ ~Row(token).is_used /\ ~Unexpired(token)
                    /\ ChangeLookup(p, token, pw))
                   => /\ pc'[p] = "cp_deactivate" /\ loc'[p].token = token
                      /\ res' = res
                      /\ UNCHANGED <<users, sessions, reset_tokens>>
                /\ (pc[p] = "idle" /\ ~Unexpired(token) /\ ChangeLookup(p, token, pw))
                   => pc'[p] \in {"idle", "cp_deactivate"}
                /\ (/\ pc[p] = "idle" /\ Stored(token) /\ Row(token).is_used
                    /\ ChangeLookup(p, token, pw))
                   => pc'[p] = "idle" /\ res'.op = "change" /\ res'.status = 400
          /\ (pc[p] = "cp_deactivate" /\ pc'[p] # "cp_deactivate") =>
                /\ \A r \in reset_tokens' : r.token = loc[p].token => r.is_used
                /\ res' = Resp("change", 401, "invalid_link")
                /\ pc'[p] = "idle"
                /\ UNCHANGED <<users, sessions>>]_vars

\* an expired link has just been refused with 401: its record is used and the
\* password is the initial one
C16_Witness ==
    /\ res = Resp("change", 401, "invalid_link")
    /\ \E r \in reset_tokens : r.is_used /\ r.token.exp < now
    /\ \A r \in reset_tokens : r.token.exp < now
    /\ \A i \in DOMAIN users : users[i].hashed_password.salt = 0

----------------------------------------------------------------------------
(* Order of the checks of recordAttendance, checked under SpecAttend *)

\* C17: recordAttendance tests user exists, geofence exists, geofence active, no
\* existing record, point within radius, in this order, and reports the first test
\* that fails: an inactive geofence gives "not active" whether or not a record for
\* the key exists, and an active geofence with a record for the key gives "already
\* recorded" whether or not the coordinates are within the radius.
C17_ChecksInOrder ==
    [][\A p \in Procs :
          /\ (/\ pc[p] = "idle"
              /\ pc'[p] = "rec_existing" \/ (res'.op = "record" /\ pc' = pc)) =>
                \A m \in Students \cup {Ghost}, code \in Codes, lat \in Lats, long \in Longs :
                   RecordResolve(p, m, code, lat, long) =>
                      /\ attendances' = attendances
                      /\ IF \A i \in DOMAIN users : users[i].user_matric # m
                         THEN res' = Resp("record", 404, "user_not_found") /\ pc'[p] = "idle"
                         ELSE IF \A i \in DOMAIN geofences : geofences[i].fence_code # code
                         THEN res' = Resp("record", 404, "invalid_fence_code") /\ pc'[p] = "idle"
                         ELSE IF \E i \in DOMAIN geofences :
                                    /\ geofences[i].fence_code = code
                                    /\ geofences[i].status = "inactive"
                         THEN res' = Resp("record", 403, "not_active") /\ pc'[p] = "idle"
                         ELSE pc'[p] = "rec_existing" /\ res' = res
          /\ (pc[p] = "rec_existing" /\ pc'[p] # "rec_existing" /\ RecordAdmit(p)) =>
                /\ attendances' = attendances
                /\ IF HasRecord(loc[p].matric_fence_code)
                   THEN res' = Resp("record", 403, "already_recorded") /\ pc'[p] = "idle"
                   ELSE IF ~Inside(loc[p])
                   THEN res' = Resp("record", 403, "not_within") /\ pc'[p] = "idle"
                   ELSE pc'[p] = "rec_insert" /\ res' = res]_vars

\* a student with a record for an active class asks again from outside the radius
\* and is about to be checked, while a call on a closed class that has a record has
\* just been answered "not active"
C17_Witness ==
    /\ res = Resp("record", 403, "not_active")
    /\ \E i \in DOMAIN geofences :
          /\ geofences[i].status = "inactive"
          /\ \E a \in AttendanceRows : a.fence_code = geofences[i].fence_code
    /\ \E p \in Procs :
          /\ pc[p] = "rec_existing"
          /\ HasRecord(loc[p].matric_fence_code)
          /\ ~Inside(loc[p])

\* C18: validating a reset token that has no stored record, or whose record is
\* used, fails with the invalid-link outcome before any verification, whether the
\* token has expired or not, and leaves the reset tokens, the password hashes and
\* the sessions unchanged.
C18_StaleTokenRejectedFirst ==
    [][\A p \in Procs, token \in Tokens, pw \in NewPasswords :
          (/\ pc[p] = "idle"
           /\ res'.op = "change" \/ pc'[p] # "idle"
           /\ ~Stored(token) \/ Row(token).is_used
           /\ ChangeLookup(p, token, pw))
          => /\ res' = Resp("change", 400, "invalid_link")
             /\ UNCHANGED <<users, sessions, reset_tokens, pc, loc>>]_vars

\* the only link ever stored is used and expired, no password was changed, and a
\* call has just been refused as an invalid link
C18_Witness ==
    /\ res = Resp("change", 400, "invalid_link")
    /\ Cardinality(reset_tokens) = 1
    /\ \A r \in reset_tokens : r.is_used /\ r.token.exp < now
    /\ \A i \in DOMAIN users : users[i].hashed_password.salt = 0
    /\ \A p \in Procs : pc[p] = "idle"

----------------------------------------------------------------------------
(* Password change claims, checked under SpecAuth *)

\* the number of times the password hash of user i has been replaced
Changes(i) == users[i].hashed_password.salt

\* C22: a reset token changes the password at most once, also when two
\* changePassword calls carrying it run concurrently: a user's password hash has
\* been replaced at most as often as that user has used tokens.
C22_TokenChangesPasswordOnce ==
    \A i \in DOMAIN users :
        Changes(i) <= Cardinality({r \in reset_tokens :
                                     r.user_id = users[i].user_matric /\ r.is_used})

\* C23: in no reachable state, the intermediate states of a running changePassword
\* included, has a user's password hash been replaced while a session issued to
\* that user before the call is still accepted.  Checked under SpecChange, where
\* every session was issued before any changePassword call.
C23_NoReplacedHashWithLiveSession ==
    \A i \in DOMAIN users, j \in DOMAIN sessions :
        (Changes(i) > 0 /\ sessions[j].user_matric = users[i].user_matric)
        => ~SessionAccepted(j)

\* C24: a changePassword that succeeds replaces the password hash and revokes the
\* sessions of exactly the user who owns the presented reset token: the rows, the
\* sessions and the reset tokens of every other user are as they were, and so are
\* all geofences and attendance records.  Checked under SpecChange.
C24_ChangeTouchesOnlyTheOwner ==
    [][/\ geofences' = geofences /\ attendances' = attendances
       /\ \A p \in Procs :
            /\ (pc[p] = "cp_mark" /\ pc'[p] = "cp_password") =>
                  /\ \A r \in reset_tokens :
                        r.user_id # loc[p].token.user_matric => r \in reset_tokens'
                  /\ Cardinality(reset_tokens') = Cardinality(reset_tokens)
                  /\ UNCHANGED <<users, sessions>>
            /\ (pc[p] = "cp_password" /\ pc'[p] = "cp_sessions") =>
                  /\ \A i \in DOMAIN users :
                        IF users[i].user_matric = loc[p].token.user_matric
                        THEN /\ users'[i].hashed_password # users[i].hashed_password
                             /\ users'[i] = [users[i] EXCEPT !.hashed_password =
                                                users'[i].hashed_password]
                        ELSE users'[i] = users[i]
                  /\ DOMAIN users' = DOMAIN users
                  /\ UNCHANGED <<sessions, reset_tokens>>
            /\ (pc[p] = "cp_sessions" /\ pc'[p] = "idle") =>
                  /\ res'.op = "change" /\ res'.status = 200
                  /\ DOMAIN sessions' = DOMAIN sessions
                  /\ \A j \in DOMAIN sessions :
                        IF sessions[j].user_matric = loc[p].token.user_matric
                        THEN ~SessionAccepted(j)'
                        ELSE sessions'[j] = sessions[j]
                  /\ UNCHANGED <<users, reset_tokens>>]_vars

\* the first student's password change has just succeeded: that student's hash is
\* new and session revoked, the second student's hash, session and unused reset
\* link are as they were
C24_Witness ==
    /\ res.op = "change" /\ res.status = 200
    /\ Changes(3) = 1 /\ ~SessionAccepted(1)
    /\ users[4] = InitUsers[4] /\ SessionAccepted(2)
    /\ IssuedToken(InitUsers[4], 0) \in reset_tokens
    /\ geofences = TwoClasses
    /\ \A p \in Procs : pc[p] = "idle"

----------------------------------------------------------------------------
(* Registration claims, checked under SpecReg *)

UniqueUsers ==
    \A i, j \in DOMAIN users :
        (users[i].email = users[j].email \/ users[i].user_matric = users[j].user_matric)
        => i = j

\* C25: no two users share an email or a matric, and a create_new_user call that
\* ends while a user with its email or its matric exists fails with "User already
\* exists" and inserts nothing, also when two registrations interleave so that
\* both run the existence check before either inserts.
C25_DuplicateRegistrationRefused ==
    [][/\ UniqueUsers /\ UniqueUsers'
       /\ \A p \in Procs :
            /\ \A email \in RegEmails, matric \in RegMatrics :
                  (/\ pc[p] = "idle"
                   /\ \E i \in DOMAIN users :
                         users[i].email = email \/ users[i].user_matric = matric
                   /\ RegisterCheck(p, email, matric, "student", "new"))
                  => res' = Resp("register", 400, "user_exists") /\ users' = users
            /\ (/\ pc[p] = "reg_insert"
                /\ \E i \in DOMAIN users :
                      \/ users[i].email = loc[p].user.email
                      \/ users[i].user_matric = loc[p].user.user_matric
                /\ RegisterInsert(p))
               => res' = Resp("register", 400, "user_exists") /\ users' = users]_vars

====
